---------------------------- MODULE Spec2Model ----------------------------
(***************************************************************************)
(* Model of pyls/docstring_converter.py: the two entry points              *)
(* DocstringConverter.to_plaintext and DocstringConverter.to_markdown, the *)
(* line normalizer split_docstring, and the state-machine parser driven by *)
(* DocstringConverter.convert.                                             *)
(*                                                                         *)
(* A Python str is a sequence of characters, each character a one-element  *)
(* TLA+ string; the backtick, which a TLA+ string literal cannot hold, is  *)
(* the atom BT.  A Python list is a sequence.  None is the value None      *)
(* below, which is no str the model builds.                                *)
(*                                                                         *)
(* A call that raises ends in pc = "raised" with the exception's type in   *)
(* exc.  The file is a partial port from C#: it calls str.StartsWith,      *)
(* Pattern.Replace, Pattern.Match and Match.Groups, none of which exist in *)
(* Python, so each of those calls raises AttributeError where it stands.   *)
(***************************************************************************)
EXTENDS Integers, Sequences, FiniteSets, TLC

VARIABLES
    fn,           \* the entry point called: "to_plaintext" or "to_markdown"
    docstring,    \* its argument
    pc,           \* "call", "plaintext_loop", "convert", "done", "raised"
    result,       \* the value returned (pc = "done")
    exc,          \* the exception that ended the call (pc = "raised")
    lines,        \* to_plaintext: local lines
    output,       \* to_plaintext: local output
    idx,          \* to_plaintext: position of the for loop in lines
    self,         \* to_markdown: the DocstringConverter instance
    invocations   \* convert: number of self._state() calls made so far

vars == <<fn, docstring, pc, result, exc, lines, output, idx, self, invocations>>

-----------------------------------------------------------------------------
(* Bounds and the inputs drawn.                                            *)

MaxLines == 3

BT == "BT"
TAB == "\t"
NL == "\n"
None == <<"None">>
NoExc == "none"

\* The physical lines a docstring is assembled from.
LineChoices ==
    { <<>>,
      <<" ">>,
      <<TAB, "a">>,
      <<"a">>,
      <<">", ">", ">", " ", "a">>,
      <<BT, BT, BT>>,
      <<"a", ":", ":">>,
      <<" ", " ", "b">>,
      <<".", ".", " ", "n", ":", ":">>,
      <<".", ".", " ", "c", "l", "a", "s", "s", ":", ":", " ", "A">>,
      <<"a", "_", "b">>,
      <<"=", "=", " ", "=", "=">>,
      <<BT, "a">> }

-----------------------------------------------------------------------------
(* Python str and list primitives.                                         *)

\* str.isspace for one character (the whitespace of the model's alphabet).
isspace_char(c) == c \in {" ", TAB, NL}

\* str.isspace: False for the empty string.
isspace(s) == Len(s) > 0 /\ \A i \in 1..Len(s) : isspace_char(s[i])

RECURSIVE lstrip(_)
lstrip(s) ==
    IF s # <<>> /\ isspace_char(Head(s)) THEN lstrip(Tail(s)) ELSE s

RECURSIVE rstrip(_)
rstrip(s) ==
    IF s # <<>> /\ isspace_char(s[Len(s)])
    THEN rstrip(SubSeq(s, 1, Len(s) - 1))
    ELSE s

strip(s) == lstrip(rstrip(s))

\* s[n:] for n >= 0
slice_from(s, n) == IF n >= Len(s) THEN <<>> ELSE SubSeq(s, n + 1, Len(s))

startswith(s, prefix) ==
    Len(s) >= Len(prefix) /\ SubSeq(s, 1, Len(prefix)) = prefix

endswith(s, suffix) ==
    Len(s) >= Len(suffix) /\ SubSeq(s, Len(s) - Len(suffix) + 1, Len(s)) = suffix

RECURSIVE join(_, _)
join(sep, l) ==
    IF l = <<>> THEN <<>>
    ELSE IF Len(l) = 1 THEN l[1]
    ELSE l[1] \o sep \o join(sep, Tail(l))

\* docstring.replace("\t", "        ")
RECURSIVE replace_tabs(_)
replace_tabs(s) ==
    IF s = <<>> THEN <<>>
    ELSE (IF Head(s) = TAB
          THEN <<" ", " ", " ", " ", " ", " ", " ", " ">>
          ELSE <<Head(s)>>) \o replace_tabs(Tail(s))

\* Length of the longest prefix of s without whitespace.
RECURSIVE word_len(_)
word_len(s) ==
    IF s = <<>> \/ isspace_char(Head(s)) THEN 0 ELSE 1 + word_len(Tail(s))

\* str.split() with no argument: the maximal runs of non-whitespace characters.
RECURSIVE split(_)
split(s) ==
    LET t == lstrip(s)
        k == word_len(t)
    IN  IF t = <<>> THEN <<>>
        ELSE <<SubSeq(t, 1, k)>> \o split(slice_from(t, k))

RECURSIVE min_of(_)
min_of(l) ==
    IF Len(l) = 1 THEN l[1]
    ELSE LET m == min_of(Tail(l)) IN IF l[1] < m THEN l[1] ELSE m

-----------------------------------------------------------------------------
(* Module-level helpers.                                                   *)

\* is_null_or_whitespace without its test for None (lines 53-54).
is_null_or_whitespace_no_null(s) == isspace(s)

is_null_or_whitespace(s) == IF s = None THEN TRUE ELSE isspace(s)

count_leading_spaces(s) == Len(s) - Len(lstrip(s))

last_or_none(l) == IF Len(l) = 0 THEN None ELSE l[Len(l)]

-----------------------------------------------------------------------------
(* Line normalizer.                                                        *)

largest_trim(ls) ==
    LET kept == SelectSeq(ls, LAMBDA x : ~is_null_or_whitespace(x))
        keptCounts == [i \in 1..Len(kept) |-> count_leading_spaces(kept[i])]
    IN  IF Len(keptCounts) = 0 THEN 0 ELSE min_of(keptCounts)

strip_leading_whitespace(ls, trim) ==
    LET amount == IF trim = None THEN largest_trim(ls) ELSE trim
    IN  [i \in 1..Len(ls) |->
            IF amount > Len(ls[i]) THEN <<>> ELSE slice_from(ls[i], amount)]

split_docstring(d) ==
    LET words == split(replace_tabs(d))
        ls0 == [i \in 1..Len(words) |-> rstrip(words[i])]
    IN  IF Len(ls0) > 0
        THEN LET first0 == lstrip(ls0[1])
                 first == IF first0 = <<>> THEN None ELSE first0
                 rest == IF first0 = <<>> THEN ls0 ELSE Tail(ls0)
                 stripped == strip_leading_whitespace(rest, None)
             IN  IF first # None THEN <<first>> \o stripped ELSE stripped
        ELSE ls0

-----------------------------------------------------------------------------
(* The converter instance before construction.                             *)

NoInstance ==
    [ lines |-> <<>>, lineNum |-> 0, state |-> "none", stateStack |-> <<>>,
      blockIndent |-> 0, builder |-> <<>>, skipAppendEmptyLine |-> TRUE,
      insideInlineCode |-> FALSE, appendDirectiveBlock |-> FALSE,
      exc |-> NoExc ]

Docstrings ==
    {None} \cup
    { join(<<NL>>, ls) : ls \in UNION { [1..n -> LineChoices] : n \in 1..MaxLines } }

Init ==
    /\ fn \in {"to_plaintext", "to_markdown"}
    /\ docstring \in Docstrings
    /\ pc = "call"
    /\ result = None
    /\ exc = NoExc
    /\ lines = <<>>
    /\ output = <<>>
    /\ idx = 1
    /\ self = NoInstance
    /\ invocations = 0

-----------------------------------------------------------------------------
(* to_plaintext.                                                           *)

\* Lines 78-82: the guard, then split_docstring and the empty output list.
\* docstring.replace on None raises AttributeError (reached only if the guard
\* lets None through).
to_plaintext_call ==
    /\ pc = "call"
    /\ fn = "to_plaintext"
    /\ IF is_null_or_whitespace(docstring)
       THEN /\ result' = <<>>
            /\ pc' = "done"
            /\ UNCHANGED <<exc, lines>>
       ELSE IF docstring = None
       THEN /\ pc' = "raised"
            /\ exc' = "AttributeError"
            /\ UNCHANGED <<result, lines>>
       ELSE /\ lines' = split_docstring(docstring)
            /\ pc' = "plaintext_loop"
            /\ UNCHANGED <<result, exc>>
    /\ UNCHANGED <<fn, docstring, output, idx, self, invocations>>

\* Lines 84-87: one iteration of the for loop.  "output += line" extends the
\* list with the characters of line, one list element per character.
to_plaintext_loop ==
    /\ pc = "plaintext_loop"
    /\ idx <= Len(lines)
    /\ LET line == lines[idx]
       IN  IF is_null_or_whitespace(line)
              /\ is_null_or_whitespace(last_or_none(output))
           THEN output' = output
           ELSE output' = output \o [i \in 1..Len(line) |-> <<line[i]>>]
    /\ idx' = idx + 1
    /\ UNCHANGED <<fn, docstring, pc, result, exc, lines, self, invocations>>

\* Line 89.
to_plaintext_return ==
    /\ pc = "plaintext_loop"
    /\ idx > Len(lines)
    /\ result' = rstrip(join(<<NL>>, output))
    /\ pc' = "done"
    /\ UNCHANGED <<fn, docstring, exc, lines, output, idx, self, invocations>>

-----------------------------------------------------------------------------
(* The patterns that are matched with re.Pattern.match, which exists.      *)

RECURSIVE strip_blanks(_)
strip_blanks(s) ==
    IF s # <<>> /\ Head(s) = " " THEN strip_blanks(Tail(s)) ELSE s

\* DoctestRegex = r" *>>> "
DoctestRegex_match(s) == startswith(strip_blanks(s), <<">", ">", ">", " ">>)

\* SpaceDotDotRegex = r"^\s*\.\. "
SpaceDotDotRegex_match(s) == startswith(lstrip(s), <<".", ".", " ">>)

\* LiteralBlockEmptyRegex = r"^\s*::$"; $ also matches before a final newline.
LiteralBlockEmptyRegex_match(s) ==
    lstrip(s) \in { <<":", ":">>, <<":", ":", NL>> }

\* TildaHeaderRegex = r"^\s*~~~+$"
TildaHeaderRegex_match(s) ==
    LET t0 == lstrip(s)
        t == IF t0 # <<>> /\ t0[Len(t0)] = NL THEN SubSeq(t0, 1, Len(t0) - 1) ELSE t0
    IN  Len(t) >= 3 /\ \A i \in 1..Len(t) : t[i] = "~"

DirectiveNames ==
    { <<"p", "a", "r", "a", "m">>, <<"a", "r", "g">>, <<"t", "y", "p", "e">>,
      <<"r", "e", "t", "u", "r", "n">>, <<"r", "t", "y", "p", "e">>,
      <<"r", "a", "i", "s", "e">>, <<"e", "x", "c", "e", "p", "t">>,
      <<"v", "a", "r">>, <<"i", "v", "a", "r">>, <<"c", "v", "a", "r">>,
      <<"c", "o", "p", "y", "r", "i", "g", "h", "t">>,
      <<"l", "i", "c", "e", "n", "s", "e">> }

\* DirectivesExtraNewlineRegex = r"^\s*:(param|arg|...|license)"
DirectivesExtraNewlineRegex_match(s) ==
    \E d \in DirectiveNames : startswith(lstrip(s), <<":">> \o d)

\* line.split('`')
RECURSIVE split_on(_, _)
split_on(s, c) ==
    IF \A i \in 1..Len(s) : s[i] # c THEN <<s>>
    ELSE LET k == CHOOSE i \in 1..Len(s) :
                      s[i] = c /\ \A j \in 1..(i - 1) : s[j] # c
         IN  <<SubSeq(s, 1, k - 1)>> \o split_on(slice_from(s, k), c)

\* part.replace('~', '-')
replace_char(s, a, b) == [i \in 1..Len(s) |-> IF s[i] = a THEN b ELSE s[i]]

-----------------------------------------------------------------------------
(* DocstringConverter: accessors and the output buffer.                    *)

Raise(p, e) == [p EXCEPT !.exc = e]

\* __init__ (lines 126-138)
new_converter(inp) ==
    [ lines |-> split_docstring(inp), lineNum |-> 0, state |-> "parse_text",
      stateStack |-> <<>>, blockIndent |-> 0, builder |-> <<>>,
      skipAppendEmptyLine |-> TRUE, insideInlineCode |-> FALSE,
      appendDirectiveBlock |-> FALSE, exc |-> NoExc ]

\* self._lines[i] with Python's indexing: a negative index counts from the end.
line_at(p, i) ==
    LET n == Len(p.lines)
    IN  IF 0 <= i /\ i < n THEN p.lines[i + 1]
        ELSE IF i < 0 /\ -n <= i THEN p.lines[n + i + 1]
        ELSE None

current_line(p) ==
    IF p.lineNum < Len(p.lines) THEN p.lines[p.lineNum + 1] ELSE None

current_indent(p) == count_leading_spaces(current_line(p))

current_line_is_outside_block(p) == current_indent(p) < p.blockIndent

current_line_within_block(p) == slice_from(current_line(p), p.blockIndent)

eat_line(p) == [p EXCEPT !.lineNum = @ + 1]

\* next_block_indent (lines 106-124): the indentation of the first line after
\* the current one that is_null_or_whitespace does not skip.
RECURSIVE skip_blank_lines(_)
skip_blank_lines(ls) ==
    IF ls # <<>> /\ is_null_or_whitespace(Head(ls))
    THEN skip_blank_lines(Tail(ls))
    ELSE ls

next_block_indent(p) ==
    LET rest == skip_blank_lines(slice_from(p.lines, p.lineNum + 1))
        res == IF Len(rest) = 0 THEN <<>> ELSE rest[1]
    IN  count_leading_spaces(res)

\* append_line (lines 465-471); line may be None.
append_line(p, line) ==
    IF ~is_null_or_whitespace(line)
    THEN [p EXCEPT !.builder = @ \o <<NL>> \o line, !.skipAppendEmptyLine = FALSE]
    ELSE IF ~p.skipAppendEmptyLine
    THEN [p EXCEPT !.builder = @ \o <<NL>>, !.skipAppendEmptyLine = TRUE]
    ELSE p

\* append (lines 473-475)
append(p, text) ==
    [p EXCEPT !.builder = @ \o text, !.skipAppendEmptyLine = FALSE]

\* trim_output_and_append_line (lines 477-484): the value of
\* self._builder.rstrip() is dropped, so the builder is not trimmed.
trim_output_and_append_line(p, line, no_newline) ==
    LET p1 == [p EXCEPT !.skipAppendEmptyLine = FALSE]
        p2 == IF ~no_newline THEN append_line(p1, None) ELSE p1
    IN  append_line(p2, line)

\* push_and_set_state (lines 186-191): line 188 assigns a local variable, so
\* the instance's _insideInlineCode keeps its value.
push_and_set_state(p, next_state) ==
    [p EXCEPT !.stateStack = Append(@, p.state), !.state = next_state]

\* pop_state (lines 193-198): list.pop() of an empty list raises IndexError.
pop_state(p) ==
    IF p.stateStack = <<>> THEN Raise(p, "IndexError")
    ELSE LET s == p.stateStack[Len(p.stateStack)]
         IN  [p EXCEPT !.state = s,
                       !.stateStack = SubSeq(@, 1, Len(@) - 1),
                       !.insideInlineCode = IF s = "parse_text" THEN FALSE ELSE @]

-----------------------------------------------------------------------------
(* Text-line emission.                                                     *)

\* preprocess_text_line (lines 298-307).  A line of only "::" returns "";
\* for any other line the first pass of the loop calls regex.Replace, which
\* re.Pattern does not have: AttributeError.
preprocess_text_line(line) ==
    IF LiteralBlockEmptyRegex_match(line)
    THEN [exc |-> NoExc, value |-> <<>>]
    ELSE [exc |-> "AttributeError", value |-> None]

\* The loop of append_text_line over parts[i..] (lines 232-289), i 0-based.
\* Outside inline code only the "~~~" header branch (lines 254-256) completes;
\* every other branch runs into WhitespaceRegex.Replace (249), part.Replace
\* (263), match.Groups (272, after a LeadingAsteriskRegex match) or
\* UnescapedMarkdownCharsRegex.Replace (287): AttributeError.
RECURSIVE emit_parts(_, _, _)
emit_parts(p, parts, i) ==
    IF i >= Len(parts) THEN p
    ELSE LET part == parts[i + 1]
             p1 == IF i > 0
                   THEN append([p EXCEPT !.insideInlineCode = ~@], <<BT>>)
                   ELSE p
         IN  IF p1.insideInlineCode
             THEN emit_parts(append(p1, part), parts, i + 1)
             ELSE IF i = 0 /\ Len(parts) = 1 /\ TildaHeaderRegex_match(part)
             THEN emit_parts(append(p1, replace_char(part, "~", "-")), parts, i + 1)
             ELSE Raise(p1, "AttributeError")

\* append_text_line (lines 222-295)
append_text_line(p, line) ==
    LET pre == preprocess_text_line(line)
    IN  IF pre.exc # NoExc THEN Raise(p, pre.exc)
        ELSE LET p1 == IF ~p.insideInlineCode
                          /\ DirectivesExtraNewlineRegex_match(pre.value)
                       THEN append_line(p, None)
                       ELSE p
                 p2 == emit_parts(p1, split_on(pre.value, BT), 0)
             IN  IF p2.exc # NoExc THEN p2
                 ELSE [p2 EXCEPT !.builder = @ \o <<NL>>]

-----------------------------------------------------------------------------
(* Block openers: each returns whether it opened a block, and the instance. *)

\* begin_min_indent_code_block (lines 317-320)
begin_min_indent_code_block(p, state) ==
    LET p1 == push_and_set_state(append_line(p, <<BT, BT, BT>>), state)
    IN  [p1 EXCEPT !.blockIndent = current_indent(p1)]

\* begin_backtick_block (lines 322-329): str has no method StartsWith, so
\* line 323 raises AttributeError for every current line.
begin_backtick_block(p) == [ok |-> FALSE, p |-> Raise(p, "AttributeError")]

\* begin_doc_test (lines 341-349)
begin_doc_test(p) ==
    IF ~DoctestRegex_match(current_line(p)) THEN [ok |-> FALSE, p |-> p]
    ELSE LET p1 == begin_min_indent_code_block(p, "parse_doctest")
             p2 == append_line(p1, current_line_within_block(p1))
         IN  [ok |-> TRUE, p |-> eat_line(p2)]

\* The while loop of begin_literal_block (lines 370-382): the index of the
\* nearest earlier line that ends with "::", -1 when the loop runs out, -2
\* when it returns False at a line that does not end with "::".
RECURSIVE literal_owner(_, _)
literal_owner(p, i) ==
    IF i < 0 THEN -1
    ELSE LET line == line_at(p, i)
         IN  IF is_null_or_whitespace(line) THEN literal_owner(p, i - 1)
             ELSE IF endswith(line, <<":", ":">>) THEN i
             ELSE -2

\* begin_literal_block (lines 361-395)
begin_literal_block(p) ==
    LET prev == line_at(p, p.lineNum - 1)
    IN  IF prev = None THEN [ok |-> FALSE, p |-> p]
        ELSE IF ~is_null_or_whitespace(prev) THEN [ok |-> FALSE, p |-> p]
        ELSE IF literal_owner(p, p.lineNum - 2) < 0 THEN [ok |-> FALSE, p |-> p]
        ELSE IF current_indent(p) = 0
        THEN [ok |-> TRUE,
              p |-> push_and_set_state(append_line(p, <<BT, BT, BT>>),
                                       "parse_literal_block_single_line")]
        ELSE [ok |-> TRUE, p |-> begin_min_indent_code_block(p, "parse_literal_block")]

\* begin_directive (lines 420-427)
begin_directive(p) ==
    IF ~SpaceDotDotRegex_match(current_line(p)) THEN [ok |-> FALSE, p |-> p]
    ELSE LET p1 == push_and_set_state(p, "parse_directive")
         IN  [ok |-> TRUE,
              p |-> [p1 EXCEPT !.blockIndent = next_block_indent(p1),
                               !.appendDirectiveBlock = FALSE]]

-----------------------------------------------------------------------------
(* The state handlers.                                                     *)

\* parse_text (lines 200-220)
parse_text(p) ==
    IF is_null_or_whitespace(current_line(p))
    THEN [p EXCEPT !.state = "parse_empty"]
    ELSE LET b1 == begin_backtick_block(p)
         IN  IF b1.p.exc # NoExc \/ b1.ok THEN b1.p
             ELSE LET b2 == begin_literal_block(b1.p)
             IN  IF b2.p.exc # NoExc \/ b2.ok THEN b2.p
             ELSE LET b3 == begin_doc_test(b2.p)
             IN  IF b3.p.exc # NoExc \/ b3.ok THEN b3.p
             ELSE LET b4 == begin_directive(b3.p)
             IN  IF b4.p.exc # NoExc \/ b4.ok THEN b4.p
             ELSE LET q == append_text_line(b4.p, current_line(b4.p))
             IN  IF q.exc # NoExc THEN q ELSE eat_line(q)

\* parse_empty (lines 309-315)
parse_empty(p) ==
    IF is_null_or_whitespace(current_line(p))
    THEN eat_line(append_line(p, None))
    ELSE [p EXCEPT !.state = "parse_text"]

\* parse_backtick_block (lines 331-339): line 332 calls str.StartsWith.
parse_backtick_block(p) == Raise(p, "AttributeError")

\* parse_doctest (lines 351-359)
parse_doctest(p) ==
    IF current_line_is_outside_block(p) \/ is_null_or_whitespace(current_line(p))
    THEN pop_state(append_line(
             trim_output_and_append_line(p, <<BT, BT, BT>>, FALSE), None))
    ELSE eat_line(append_line(p, current_line_within_block(p)))

\* parse_literal_block (lines 397-411)
parse_literal_block(p) ==
    IF is_null_or_whitespace(current_line(p))
    THEN eat_line(append_line(p, None))
    ELSE IF current_line_is_outside_block(p)
    THEN pop_state(append_line(
             trim_output_and_append_line(p, <<BT, BT, BT>>, FALSE), None))
    ELSE eat_line(append_line(p, current_line_within_block(p)))

\* parse_literal_block_single_line (lines 413-418)
parse_literal_block_single_line(p) ==
    LET p1 == append_line(p, current_line(p))
        p2 == append_line(p1, <<BT, BT, BT>>)
        p3 == pop_state(append_line(p2, None))
    IN  IF p3.exc # NoExc THEN p3 ELSE eat_line(p3)

\* parse_directive (lines 429-451): line 432 calls DirectiveLikeRegex.Match,
\* which re.Pattern does not have, so nothing after it runs.
parse_directive(p) == Raise(p, "AttributeError")

\* parse_directive_block (lines 453-463)
parse_directive_block(p) ==
    IF ~is_null_or_whitespace(current_line(p)) /\ current_line_is_outside_block(p)
    THEN pop_state(p)
    ELSE LET p1 == IF p.appendDirectiveBlock
                   THEN append_text_line(p, lstrip(current_line(p)))
                   ELSE p
         IN  IF p1.exc # NoExc THEN p1 ELSE eat_line(p1)

\* self._state()
run_state(p) ==
    CASE p.state = "parse_text" -> parse_text(p)
      [] p.state = "parse_empty" -> parse_empty(p)
      [] p.state = "parse_backtick_block" -> parse_backtick_block(p)
      [] p.state = "parse_doctest" -> parse_doctest(p)
      [] p.state = "parse_literal_block" -> parse_literal_block(p)
      [] p.state = "parse_literal_block_single_line" ->
             parse_literal_block_single_line(p)
      [] p.state = "parse_directive" -> parse_directive(p)
      [] p.state = "parse_directive_block" -> parse_directive_block(p)

-----------------------------------------------------------------------------
(* to_markdown and convert.                                                *)

\* to_markdown (lines 101-104): the guard, then the constructor.
to_markdown_call ==
    /\ pc = "call"
    /\ fn = "to_markdown"
    /\ IF is_null_or_whitespace(docstring)
       THEN /\ result' = <<>>
            /\ pc' = "done"
            /\ UNCHANGED <<exc, self>>
       ELSE IF docstring = None
       THEN /\ pc' = "raised"
            /\ exc' = "AttributeError"
            /\ UNCHANGED <<result, self>>
       ELSE /\ self' = new_converter(docstring)
            /\ pc' = "convert"
            /\ UNCHANGED <<result, exc>>
    /\ UNCHANGED <<fn, docstring, lines, output, idx, invocations>>

\* One pass of the while loop of convert (lines 165-174): the handler runs;
\* an exception it raises leaves convert; a pass that changes neither the
\* state nor the line number reaches sys.exit(1), which raises SystemExit.
convert_step ==
    /\ pc = "convert"
    /\ current_line(self) # None
    /\ LET q == run_state(self)
       IN  /\ self' = q
           /\ IF q.exc # NoExc
              THEN pc' = "raised" /\ exc' = q.exc
              ELSE IF q.state = self.state /\ q.lineNum = self.lineNum
              THEN pc' = "raised" /\ exc' = "SystemExit"
              ELSE pc' = pc /\ exc' = exc
    /\ invocations' = invocations + 1
    /\ UNCHANGED <<fn, docstring, result, lines, output, idx>>

\* The end of convert (lines 176-184).
convert_finish ==
    /\ pc = "convert"
    /\ current_line(self) = None
    /\ LET q == IF self.state \in {"parse_backtick_block", "parse_doctest",
                                   "parse_literal_block"}
                THEN trim_output_and_append_line(self, <<BT, BT, BT>>, FALSE)
                ELSE IF self.insideInlineCode
                THEN trim_output_and_append_line(self, <<BT>>, TRUE)
                ELSE self
       IN  /\ self' = q
           /\ result' = strip(q.builder)
    /\ pc' = "done"
    /\ UNCHANGED <<fn, docstring, exc, lines, output, idx, invocations>>

Next ==
    \/ to_plaintext_call
    \/ to_plaintext_loop
    \/ to_plaintext_return
    \/ to_markdown_call
    \/ convert_step
    \/ convert_finish

Spec == Init /\ [][Next]_vars

-----------------------------------------------------------------------------
(* Vocabulary of the properties.                                           *)

\* The call has returned or raised.
Ended == pc \in {"done", "raised"}

Markdown == fn = "to_markdown"

Fence == <<BT, BT, BT>>

\* The physical lines of a text: the text cut at its newlines.
PhysicalLines(d) == split_on(d, NL)

Blank(s) == s = <<>> \/ isspace(s)

\* The first line of the Line Sequence begins with a triple backtick.
OpensWithFence == self.lines # <<>> /\ startswith(self.lines[1], Fence)

\* The lines from a leading fence marker to the next marker, or to the end.
BacktickSpan(ls) ==
    LET closers == { k \in 2..Len(ls) : startswith(ls[k], Fence) }
        last == IF closers = {} THEN Len(ls)
                ELSE CHOOSE k \in closers : \A j \in closers : k <= j
    IN  SubSeq(ls, 1, last)

\* The docstring is a doctest prompt line, a blank line, then more content.
DoctestThenBlankThenContent ==
    /\ docstring # None
    /\ LET ls == PhysicalLines(docstring)
       IN  /\ Len(ls) >= 3
           /\ DoctestRegex_match(ls[1])
           /\ Blank(ls[2])
           /\ ~Blank(ls[3])

\* The docstring is a paragraph ending in "::", a blank line, then an
\* indented line.
LiteralBlockInput ==
    /\ docstring # None
    /\ LET ls == PhysicalLines(docstring)
       IN  /\ Len(ls) >= 3
           /\ endswith(ls[1], <<":", ":">>)
           /\ ~startswith(lstrip(ls[1]), <<".", ".", " ">>)
           /\ Blank(ls[2])
           /\ ~Blank(ls[3])
           /\ count_leading_spaces(ls[3]) > 0

\* The docstring is one directive that is not of kind class: a ".. " line,
\* then only blank or indented lines.
OtherDirectiveOnly ==
    /\ docstring # None
    /\ LET ls == PhysicalLines(docstring)
       IN  /\ SpaceDotDotRegex_match(ls[1])
           /\ ~startswith(lstrip(ls[1]),
                          <<".", ".", " ", "c", "l", "a", "s", "s", ":", ":">>)
           /\ \A i \in 2..Len(ls) : Blank(ls[i]) \/ count_leading_spaces(ls[i]) > 0

-----------------------------------------------------------------------------
(* The properties.                                                         *)

\* C1: to_plaintext and to_markdown return a string for every input and never
\* raise an exception or abort the call.
C1_NeverRaises == pc # "raised"

\* C2: for a docstring that is None, empty or made only of whitespace, both
\* to_plaintext and to_markdown return the empty string (and do not raise).
C2_BlankGivesEmpty ==
    (docstring = None \/ docstring = <<>> \/ isspace(docstring))
        => /\ pc # "raised"
           /\ (pc = "done" => result = <<>>)

\* C2 happens: to_markdown has returned "" for a docstring of several
\* whitespace characters.
C2_Witness ==
    /\ pc = "done"
    /\ Markdown
    /\ isspace(docstring)
    /\ Len(docstring) >= 2
    /\ result = <<>>

\* C3: one invocation of the active state's handler either advances the line
\* cursor or changes the active state.
C3_HandlerMakesProgress ==
    [][(pc = "convert" /\ invocations' = invocations + 1)
          => (self'.lineNum # self.lineNum \/ self'.state # self.state)]_vars

\* C4: convert terminates with the cursor past the last line, after at most
\* three handler invocations per line.
C4_ConvertTerminates ==
    (Markdown /\ Ended /\ self.state # "none")
        => /\ self.lineNum >= Len(self.lines)
           /\ invocations <= 3 * Len(self.lines)

\* C5: when the input opens a code fence, the output of to_markdown holds the
\* opening fence and a closing fence for it, also when the input never closes
\* it.
C5_OpenFenceIsClosed ==
    (Markdown /\ Ended /\ OpensWithFence)
        => /\ pc = "done"
           /\ LET rl == PhysicalLines(result)
                  fences == { i \in 1..Len(rl) : startswith(rl[i], Fence) }
              IN  Cardinality(fences) >= 2 /\ Cardinality(fences) % 2 = 0

\* C6: when the first line handled in Text state begins with a triple
\* backtick, that line and the lines after it up to the closing marker are
\* in the output as they are in the Line Sequence, in the same order.
C6_BacktickBlockVerbatim ==
    (Markdown /\ Ended /\ OpensWithFence)
        => /\ pc = "done"
           /\ startswith(result, join(<<NL>>, BacktickSpan(self.lines)))

\* C7: a line that opens a Doctest block is emitted inside the fenced block
\* without its prompt prefix: the emitted line does not start with ">>> ".
C7_DoctestPromptRemoved ==
    (Markdown /\ Ended /\ docstring # None /\ DoctestRegex_match(docstring))
        => /\ pc = "done"
           /\ LET rl == PhysicalLines(result)
              IN  /\ Len(rl) >= 2
                  /\ rl[1] = Fence
                  /\ ~startswith(rl[2], <<">", ">", ">", " ">>)

\* C8: a Doctest block closes at the first blank line, and a blank line
\* separates its closing fence from the content emitted after it.
C8_BlankAfterDoctestFence ==
    (Markdown /\ Ended /\ DoctestThenBlankThenContent)
        => /\ pc = "done"
           /\ LET rl == PhysicalLines(result)
              IN  \E i \in 2..Len(rl) :
                      /\ rl[i] = Fence
                      /\ i + 2 <= Len(rl)
                      /\ rl[i + 1] = <<>>
                      /\ rl[i + 2] # <<>>

\* C9: an indented line after a blank line whose nearest earlier non-blank
\* line ends with "::" opens a LiteralBlock, and is emitted inside one fenced
\* code block.
C9_LiteralBlockFenced ==
    (Markdown /\ Ended /\ LiteralBlockInput)
        => /\ pc = "done"
           /\ LET rl == PhysicalLines(result)
                  body == lstrip(PhysicalLines(docstring)[3])
              IN  \E i \in 1..Len(rl) :
                      /\ rl[i] = Fence
                      /\ i + 1 <= Len(rl)
                      /\ rl[i + 1] = body
                      /\ \E j \in (i + 2)..Len(rl) : rl[j] = Fence

\* C10: a directive that is not of kind class leaves the output buffer
\* unchanged: neither its header nor its body is emitted, and the cursor ends
\* at the end of the input.
C10_OtherDirectiveSilent ==
    (Markdown /\ Ended /\ OtherDirectiveOnly)
        => /\ pc = "done"
           /\ result = <<>>
           /\ self.builder = <<>>
           /\ self.lineNum = Len(self.lines)

\* The docstring is the one line ".. class:: C" with inline content C.
ClassDirectiveHeader == <<".", ".", " ", "c", "l", "a", "s", "s", ":", ":">>

ClassDirectiveOnly ==
    /\ docstring # None
    /\ LET ls == PhysicalLines(docstring)
       IN  /\ Len(ls) = 1
           /\ startswith(ls[1], ClassDirectiveHeader)
           /\ ~Blank(slice_from(ls[1], Len(ClassDirectiveHeader)))

\* C11: for a directive header of kind class with inline content C,
\* to_markdown emits an opening fence, one line that is exactly C, and a
\* closing fence, with nothing else between the two fences.
C11_ClassDirectiveFenced ==
    (Markdown /\ Ended /\ ClassDirectiveOnly)
        => /\ pc = "done"
           /\ PhysicalLines(result) =
                  << Fence,
                     strip(slice_from(docstring, Len(ClassDirectiveHeader))),
                     Fence >>
           /\ self.state = "parse_text"
           /\ self.stateStack = <<>>

\* The characters the escaping step is about.
MarkdownChars == {"_", "*", "~", "[", "]"}

\* What C12 says of a text segment s: a backslash before each character of
\* MarkdownChars that does not already follow a backslash.  prev is the
\* character before s.
RECURSIVE Escaped(_, _)
Escaped(s, prev) ==
    IF s = <<>> THEN <<>>
    ELSE (IF Head(s) \in MarkdownChars /\ prev # "\\"
          THEN <<"\\", Head(s)>>
          ELSE <<Head(s)>>) \o Escaped(Tail(s), Head(s))

\* The docstring is one line of ordinary text, outside any code context:
\* letters and at least one Markdown character.
OrdinaryTextOnly ==
    /\ docstring # None
    /\ docstring # <<>>
    /\ \A i \in 1..Len(docstring) : docstring[i] \in {"a", "b"} \cup MarkdownChars
    /\ \E i \in 1..Len(docstring) : docstring[i] \in MarkdownChars

\* C12: a text segment emitted outside inline code has every unescaped
\* '_', '*', '~', '[' or ']' prefixed by exactly one backslash ('a_b' gives
\* 'a\_b'), and escaping the output again changes nothing.
C12_MarkdownCharsEscaped ==
    (Markdown /\ Ended /\ OrdinaryTextOnly)
        => /\ pc = "done"
           /\ result = Escaped(docstring, "")
           /\ Escaped(result, "") = result

\* C13: given '== ==' followed by a newline, to_markdown emits a single line
\* of four '=' characters.
C13_SeparatorLineFilled ==
    (Markdown /\ Ended /\ docstring = <<"=", "=", " ", "=", "=", NL>>)
        => /\ pc = "done"
           /\ result = <<"=", "=", "=", "=">>

\* The first line of the docstring is a text line that ends with "::"
\* directly after a non-blank character.
IntroducesLiteralBlock ==
    /\ docstring # None
    /\ LET l == PhysicalLines(docstring)[1]
       IN  /\ Len(l) >= 3
           /\ endswith(l, <<":", ":">>)
           /\ ~isspace_char(l[Len(l) - 2])
           /\ l[Len(l) - 2] # ":"
           /\ ~SpaceDotDotRegex_match(l)

\* C14: when a text line that introduces a literal block is emitted, its
\* trailing '::' is reduced to a single ':' and no other character of the
\* line is changed.
C14_TrailingColonsReduced ==
    (Markdown /\ Ended /\ IntroducesLiteralBlock)
        => /\ pc = "done"
           /\ LET l == PhysicalLines(docstring)[1]
              IN  PhysicalLines(result)[1] = SubSeq(l, 1, Len(l) - 1)

\* ls with each run of consecutive blank lines cut down to its first line.
CollapseBlankRuns(ls) ==
    LET keep == { i \in 1..Len(ls) : ~(Blank(ls[i]) /\ i > 1 /\ Blank(ls[i - 1])) }
        F[i \in 0..Len(ls)] ==
            IF i = 0 THEN <<>>
            ELSE IF i \in keep THEN Append(F[i - 1], ls[i]) ELSE F[i - 1]
    IN  F[Len(ls)]

\* C15: the result of to_plaintext is the Line Sequence with each run of
\* blank lines collapsed to one blank line, all other lines verbatim and in
\* order, joined by newlines and right-trimmed; so it has no two consecutive
\* blank lines and no line with trailing whitespace.
C15_PlaintextKeepsLines ==
    (fn = "to_plaintext" /\ pc = "done")
        => /\ result = rstrip(join(<<NL>>, CollapseBlankRuns(lines)))
           /\ LET rl == PhysicalLines(result)
              IN  /\ \A i \in 1..Len(rl) : rstrip(rl[i]) = rl[i]
                  /\ \A i \in 2..Len(rl) : ~(rl[i] = <<>> /\ rl[i - 1] = <<>>)

\* The lines of the docstring before the dedent: tabs expanded, cut at the
\* newlines, each right-trimmed.
TrimmedLines(d) ==
    LET pl == PhysicalLines(replace_tabs(d))
    IN  [i \in 1..Len(pl) |-> rstrip(pl[i])]

\* The characters of s that are not whitespace, in order.
NonWhitespace(s) == SelectSeq(s, LAMBDA c : ~isspace_char(c))

\* to_plaintext holds the result of split_docstring in lines.
HasSplit == fn = "to_plaintext" /\ pc \in {"plaintext_loop", "done"} /\ docstring # None

\* C16: when some line other than the first is not blank, after
\* split_docstring the least indentation of the non-first, non-blank lines
\* is 0, every non-first line has lost the same number of leading characters
\* (or become empty if it was shorter), and no non-whitespace character is
\* removed.  (Stated for the docstrings with one word on every line, where
\* the lines of the result and of the docstring correspond one to one.)
C16_DedentUniform ==
    (/\ HasSplit
     /\ Len(TrimmedLines(docstring)) >= 2
     /\ \A i \in 1..Len(TrimmedLines(docstring)) :
            Len(split(TrimmedLines(docstring)[i])) = 1)
        => LET tl == TrimmedLines(docstring)
           IN  /\ Len(lines) = Len(tl)
               /\ \E i \in 2..Len(lines) :
                      ~Blank(lines[i]) /\ count_leading_spaces(lines[i]) = 0
               /\ \E k \in 0..8 :
                      \A i \in 2..Len(tl) :
                          lines[i] = IF k > Len(tl[i]) THEN <<>>
                                     ELSE slice_from(tl[i], k)
               /\ NonWhitespace(join(<<>>, lines)) = NonWhitespace(docstring)

\* The docstring is one line of text that opens an inline-code span and
\* never closes it: no whitespace, one backtick.
OpenInlineCodeOnly ==
    /\ docstring # None
    /\ Cardinality({ i \in 1..Len(docstring) : docstring[i] = BT }) = 1
    /\ \A i \in 1..Len(docstring) : ~isspace_char(docstring[i])

\* C19: the Inline-Code Flag is toggled once per backtick of an emitted text
\* line, and if the input ends while it is set a single closing backtick is
\* appended to the output.
C19_InlineCodeClosed ==
    (Markdown /\ Ended /\ OpenInlineCodeOnly)
        => /\ pc = "done"
           /\ self.insideInlineCode
           /\ startswith(result, docstring)
           /\ result[Len(result)] = BT
           /\ Cardinality({ i \in 1..Len(result) : result[i] = BT }) = 2

\* Every call of a state handler that the code makes raises.
EveryHandlerCallRaises ==
    [][invocations' = invocations + 1 => pc' = "raised"]_vars

\* The parser never leaves its initial configuration: no state change, no
\* push, no cursor move, no output, no flag set.
ParserNeverMoves ==
    /\ self.state \in {"none", "parse_text"}
    /\ self.stateStack = <<>>
    /\ self.lineNum = 0
    /\ self.builder = <<>>
    /\ ~self.insideInlineCode
    /\ exc \in {NoExc, "AttributeError"}

\* The sys.exit(1) branch of convert (lines 172-174) is not reached.
SysExitNotReached == exc # "SystemExit"


=============================================================================
